---- MODULE Spec2Model ----
(***************************************************************************)
(* A model of scrape_amsclubs.py: the AMS clubs directory scraper.         *)
(*                                                                         *)
(* Python str values are TLA+ strings; Len, \o and SubSeq act on them      *)
(* character by character.  The en dash U+2013 of extract_name_from_detail *)
(* cannot be written in a TLA+ string and is written "~" here (ENDASH);    *)
(* Ord gives it its real code point.                                       *)
(***************************************************************************)
EXTENDS Integers, Sequences, FiniteSets, TLC

VARIABLES
    pc,          \* where main() is: "next", "yielded", "details", "sort", "done", "raised"
    max_pages,   \* iterate_pages' parameter
    p,           \* iterate_pages' page counter (0 before the first page)
    links,       \* the links of the page iterate_pages yielded last
    new_links,   \* the part of main()'s new_links the for loop has yet to process
    seen,        \* main()'s seen set
    clubs,       \* main()'s clubs list
    extracted,   \* url -> what parse_detail returned for it (every processed url)
    io,          \* the requests and sleeps of the run, in order
    last,        \* what the last GET of a listing page did
    output,      \* clubs.json: NoFile, or the payload json.dump wrote
    writes,      \* how many times clubs.json was opened for writing
    arg,         \* the argument of a function applied on its own
    ret          \* its result

vars == <<pc, max_pages, p, links, new_links, seen, clubs, extracted, io, last,
          output, writes, arg, ret>>

----------------------------------------------------------------------------
(* Bounds of the model *)

\* anchors on one listing page handed to find_club_links on its own
MaxAnchors == 2
\* club cards on one listing page of a run of main()
MaxCards == 2
\* largest max_pages argument given to iterate_pages on its own (besides the default)
MaxPagesArg == 3

----------------------------------------------------------------------------
(* Python str operations *)

\* the stand-in for the en dash U+2013
ENDASH == "~"

\* the characters of the model's texts, by run of consecutive code points
PUNCT  == " !"
HASH   == "#"
MARKS  == "&'()*+,-./0123456789:;<=>?@ABCDEFGHIJKLMNOPQRSTUVWXYZ"
LOWERS == "_"
SMALL  == "abcdefghijklmnopqrstuvwxyz"

\* <<first code point, the characters from it on>>
Runs == << <<32, PUNCT>>, <<35, HASH>>, <<38, MARKS>>, <<95, LOWERS>>, <<97, SMALL>> >>

Chars == UNION {{SubSeq(Runs[r][2], i, i) : i \in 1..Len(Runs[r][2])} : r \in 1..Len(Runs)}
             \cup {ENDASH}

\* ord(c), for a one-character string c
Ord == [c \in Chars |->
          IF c = ENDASH THEN 8211
          ELSE LET r == CHOOSE k \in 1..Len(Runs) : \E i \in 1..Len(Runs[k][2]) :
                                                      SubSeq(Runs[k][2], i, i) = c
                   i == CHOOSE k \in 1..Len(Runs[r][2]) : SubSeq(Runs[r][2], k, k) = c
               IN Runs[r][1] + i - 1]

\* chr(n), for the code points of the small letters
Chr(n) == SubSeq(SMALL, n - 96, n - 96)

CharAt(s, i) == SubSeq(s, i, i)

\* c.lower() for one character
LowerChar(c) == IF Ord[c] >= 65 /\ Ord[c] <= 90 THEN Chr(Ord[c] + 32) ELSE c

RECURSIVE Lower(_)
\* s.lower()
Lower(s) == IF s = "" THEN "" ELSE LowerChar(CharAt(s, 1)) \o Lower(Tail(s))

\* s.startswith(prefix)
StartsWith(s, prefix) == Len(s) >= Len(prefix) /\ SubSeq(s, 1, Len(prefix)) = prefix

\* k in t
Contains(t, k) == \E i \in 1..(Len(t) - Len(k) + 1) : SubSeq(t, i, i + Len(k) - 1) = k

\* t.find(c): the first index (from 1) where c occurs in t, 0 when it does not
Find(t, c) ==
    IF Contains(t, c)
    THEN CHOOSE i \in 1..(Len(t) - Len(c) + 1) :
             /\ SubSeq(t, i, i + Len(c) - 1) = c
             /\ \A j \in 1..(i - 1) : SubSeq(t, j, j + Len(c) - 1) # c
    ELSE 0

\* s.split(sep, 1)[0]
SplitFirst(s, sep) == IF Find(s, sep) = 0 THEN s ELSE SubSeq(s, 1, Find(s, sep) - 1)

\* c.isspace(); the space is the only whitespace of the model's texts
IsSpace(c) == c = " "

RECURSIVE LStrip(_)
LStrip(s) == IF s # "" /\ IsSpace(CharAt(s, 1)) THEN LStrip(Tail(s)) ELSE s

RECURSIVE RStrip(_)
RStrip(s) == IF s # "" /\ IsSpace(CharAt(s, Len(s)))
             THEN RStrip(SubSeq(s, 1, Len(s) - 1)) ELSE s

\* s.strip()
Strip(s) == LStrip(RStrip(s))

RECURSIVE StrLess(_, _)
\* a < b for str: by code point, a proper prefix first
StrLess(a, b) ==
    IF b = "" THEN FALSE
    ELSE IF a = "" THEN TRUE
    ELSE IF CharAt(a, 1) # CharAt(b, 1) THEN Ord[CharAt(a, 1)] < Ord[CharAt(b, 1)]
    ELSE StrLess(Tail(a), Tail(b))

RECURSIVE SortedStrs(_)
\* sorted(S) for a set S of str
SortedStrs(S) ==
    IF S = {} THEN <<>>
    ELSE LET m == CHOOSE x \in S : \A y \in S \ {x} : StrLess(x, y)
         IN <<m>> \o SortedStrs(S \ {m})

----------------------------------------------------------------------------
(* The site and the listing link extractor *)

BASE == "https://amsclubs.ca"

LIST == BASE \o "/all-clubs/"

\* an <a> element without an href attribute
NoHref == "<no href>"

\* an <a> element: its href attribute and its get_text(" ", strip=True)
Anchor(href, txt) == [href |-> href, txt |-> txt]

\* the absolute, fragment-free form find_club_links gives an href
CleanHref(href) ==
    LET abs == IF StartsWith(href, "/") THEN BASE \o href ELSE href
    IN SplitFirst(abs, "#")

\* whether find_club_links keeps the anchor a
KeepsAnchor(a) ==
    /\ a.href # NoHref
    /\ Contains(a.txt, "Discover")
    /\ StartsWith(IF StartsWith(a.href, "/") THEN BASE \o a.href ELSE a.href, BASE)

\* find_club_links(soup), soup being the <a> elements in document order
find_club_links(soup) ==
    SortedStrs({CleanHref(soup[i].href) : i \in {j \in 1..Len(soup) : KeepsAnchor(soup[j])}})

----------------------------------------------------------------------------
(* The categorizer *)

CATEGORIES == <<"Athletic", "Service", "Cultural", "Recreational", "Business",
                "Technology", "Sciences", "Other">>

BUSINESS_KEYWORDS ==
    <<"finance", "business", "consult", "entrepreneur", "commerce", "sauder", "marketing">>

TECHNOLOGY_KEYWORDS ==
    <<"code", "program", "developer", "software", "product management", "pm club", "data",
      "ai", "ml", "robot", "hackathon", "tech">>

SCIENCES_KEYWORDS ==
    <<"biology", "physics", "chemistry", "science", "research", "neuroscience", "math",
      "kinesiology", "geology", "astronomy", "statistics", "biochem">>

ATHLETIC_KEYWORDS ==
    <<"sport", "athletic", "soccer", "basketball", "hockey", "climb", "martial", "yoga",
      "dance", "run", "rowing", "tennis", "badminton", "swim", "ultimate", "volleyball",
      "taekwondo", "muay thai">>

SERVICE_KEYWORDS ==
    <<"volunteer", "service", "outreach", "charity", "non-profit", "fundrais", "community",
      "brigade", "ems", "first aid">>

CULTURAL_KEYWORDS ==
    <<"culture", "cultural", "chinese", "korean", "japanese", "indian", "persian",
      "filipino", "vietnamese", "latino", "hispanic", "african", "arab", "jewish",
      "islamic", "sikh">>

RECREATIONAL_KEYWORDS ==
    <<"game", "gaming", "board game", "anime", "film", "photography", "recreation",
      "outdoor", "hiking", "improv", "music", "radio", "theatre", "clubhouse", "tabletop">>

\* any(k in t for k in keywords)
AnyIn(t, keywords) == \E i \in 1..Len(keywords) : Contains(t, keywords[i])

\* the f-string of guess_category without .lower()
CategoryTextAsIs(name, desc, url) == name \o " " \o desc \o " " \o url

\* the f-string of guess_category, lower-cased
CategoryText(name, desc, url) == Lower(name \o " " \o desc \o " " \o url)

\* guess_category(name, desc, url)
guess_category(name, desc, url) ==
    LET t == CategoryText(name, desc, url) IN
    IF AnyIn(t, BUSINESS_KEYWORDS) THEN "Business"
    ELSE IF AnyIn(t, TECHNOLOGY_KEYWORDS) THEN "Technology"
    ELSE IF AnyIn(t, SCIENCES_KEYWORDS) THEN "Sciences"
    ELSE IF AnyIn(t, ATHLETIC_KEYWORDS) THEN "Athletic"
    ELSE IF AnyIn(t, SERVICE_KEYWORDS) THEN "Service"
    ELSE IF AnyIn(t, CULTURAL_KEYWORDS) THEN "Cultural"
    ELSE IF AnyIn(t, RECREATIONAL_KEYWORDS) THEN "Recreational"
    ELSE "Other"

----------------------------------------------------------------------------
(* The detail extractor *)

\* soup.find(tag) found no element; a <meta name="description"> without content
NoTag == "<no tag>"

\* A parsed detail page: h1, h2, h3 and title are the text of the first element of
\* that tag (NoTag when the page has none), meta is the content attribute of the
\* meta description (NoTag when absent), blocks are the p, div and li elements in
\* document order, each <<tag, text>>.
DetailSoup(h1, h2, h3, title, meta, blocks) ==
    [h1 |-> h1, h2 |-> h2, h3 |-> h3, title |-> title, meta |-> meta, blocks |-> blocks]

\* re.sub(r"\s*(en dash).*$", "", s): cut from the spaces before the first en dash
StripDashSuffix(s) ==
    IF Find(s, ENDASH) = 0 THEN s ELSE RStrip(SubSeq(s, 1, Find(s, ENDASH) - 1))

\* h.get_text(strip=True) of the element soup.find(tag) found
TagText(t) == Strip(t)

\* extract_name_from_detail(soup)
extract_name_from_detail(soup) ==
    IF soup.h1 # NoTag /\ TagText(soup.h1) # "" THEN TagText(soup.h1)
    ELSE IF soup.h2 # NoTag /\ TagText(soup.h2) # "" THEN TagText(soup.h2)
    ELSE IF soup.h3 # NoTag /\ TagText(soup.h3) # "" THEN TagText(soup.h3)
    ELSE IF soup.title # NoTag THEN StripDashSuffix(TagText(soup.title))
    ELSE ""

\* the first element of blocks with a tag of tags and a text longer than n, "" if none
FirstBlock(blocks, tags, n) ==
    LET ok(i) == blocks[i][1] \in tags /\ Len(TagText(blocks[i][2])) > n
    IN IF \E i \in 1..Len(blocks) : ok(i)
       THEN TagText(blocks[CHOOSE i \in 1..Len(blocks) :
                              ok(i) /\ \A j \in 1..(i - 1) : ~ok(j)][2])
       ELSE ""

\* extract_description_from_detail(soup)
extract_description_from_detail(soup) ==
    IF soup.meta # NoTag /\ soup.meta # "" THEN Strip(soup.meta)
    ELSE IF FirstBlock(soup.blocks, {"p"}, 30) # "" THEN FirstBlock(soup.blocks, {"p"}, 30)
    ELSE FirstBlock(soup.blocks, {"p", "div", "li"}, 10)

\* what get_soup(url) does: it raises (a network failure, an error status, a parse
\* error), or it returns the parsed page
Raised == [raised |-> TRUE]
Returned(soup) == [raised |-> FALSE, soup |-> soup]

\* parse_detail falling back to the url as the name when get_soup raised
parse_detail_named(url, got) ==
    IF got.raised
    THEN [name |-> url, description |-> "", category |-> "Other"]
    ELSE LET name == extract_name_from_detail(got.soup)
             desc == extract_description_from_detail(got.soup)
         IN [name |-> name, description |-> desc,
             category |-> guess_category(name, desc, url)]

\* parse_detail(url), got being what get_soup(url) did
parse_detail(url, got) ==
    IF got.raised
    THEN [name |-> "", description |-> "", category |-> "Other"]
    ELSE LET name == extract_name_from_detail(got.soup)
             desc == extract_description_from_detail(got.soup)
         IN [name |-> name, description |-> desc,
             category |-> guess_category(name, desc, url)]

----------------------------------------------------------------------------
(* The pages the site may serve *)

RECURSIVE SeqsUpTo(_, _)
\* the sequences of at most n elements of S
SeqsUpTo(S, n) ==
    IF n = 0 THEN {<<>>}
    ELSE LET shorter == SeqsUpTo(S, n - 1)
         IN shorter \cup {Append(q, x) : q \in shorter, x \in S}

\* the club cards of the listing pages of a run
CARDS ==
    { Anchor("/clubs/chess", "Chess Club Discover"),
      Anchor(BASE \o "/clubs/chess#about", "Discover"),
      Anchor("/clubs/ai", "AI Club Discover"),
      Anchor("https://amsclubs.ca.evil.com/x", "Discover") }

\* the anchors of a listing page given to find_club_links on its own
ANCHORS ==
    CARDS \cup
    { Anchor("/clubs/Zeta", "Zeta Discover"),
      Anchor("/about", "About us"),
      Anchor(NoHref, "Discover more"),
      Anchor("clubs/relative", "Discover"),
      Anchor("https://example.com/clubs/z#x", "Discover"),
      Anchor("https://amsclubs.ca@evil.com/y", "Discover"),
      Anchor("#top", "Discover") }

\* the detail pages of a run
DETAIL_PAGES ==
    { DetailSoup("Chess Club", NoTag, NoTag, "Chess ~ AMS", "We play chess.", <<>>),
      DetailSoup(NoTag, NoTag, NoTag, "Finance Tech Volunteers  ~ AMS Clubs", NoTag,
                 << <<"p", "short">>, <<"div", "A longer block of text">> >>),
      DetailSoup("   ", NoTag, NoTag, NoTag, NoTag,
                 << <<"p", "A paragraph of more than thirty characters.">> >>),
      DetailSoup(NoTag, " art Collective ", NoTag, NoTag, NoTag, <<>>) }

\* what a GET of a listing page does: it raises (a network failure), or it returns a
\* response with a status and a body, parsed here into its anchors
ListingRaised == [raised |-> TRUE, status |-> 0, soup |-> <<>>]
ListingResponse(status, soup) == [raised |-> FALSE, status |-> status, soup |-> soup]

STATUSES == {200, 403, 404, 500}

ListingOutcomes(pages) ==
    {ListingRaised}
        \cup {ListingResponse(st, <<>>) : st \in STATUSES \ {200}}
        \cup {ListingResponse(200, s) : s \in pages}

DetailOutcomes == {Raised} \cup {Returned(s) : s \in DETAIL_PAGES}

\* the listing pages of a run
SitePages == SeqsUpTo(CARDS, MaxCards)

\* find_club_links, tabulated over the listing pages of the model
LinksOf == [s \in SitePages \cup SeqsUpTo(ANCHORS, MaxAnchors) |-> find_club_links(s)]

\* the detail urls of a run
SiteUrls == UNION {{LinksOf[s][i] : i \in 1..Len(LinksOf[s])} : s \in SitePages}

\* parse_detail, tabulated over the detail urls and pages of the model
DetailOf == [u \in SiteUrls, got \in DetailOutcomes |-> parse_detail(u, got)]

----------------------------------------------------------------------------
(* The pagination walker *)

DEFAULT_MAX_PAGES == 50

\* the page urls numbered one too far after page 1
ListingUrlSkipping(q) ==
    IF q = 1 THEN LIST ELSE BASE \o "/all-clubs/pagenum/" \o ToString(q + 1) \o "/"

\* the url iterate_pages requests for page q
ListingUrl(q) == IF q = 1 THEN LIST ELSE BASE \o "/all-clubs/pagenum/" \o ToString(q) \o "/"

Get(kind, url) == [op |-> kind, url |-> url]
Sleep == [op |-> "sleep 0.5", url |-> ""]

\* only the 5xx statuses raise
IsServerErrorStatus(status) == status >= 500 /\ status < 600

\* r.raise_for_status() raises
IsErrorStatus(status) == status >= 400 /\ status < 600

\* what the generator keeps of a GET of a listing page: whether it raised, the status,
\* and the links find_club_links found in the body (none when the body is not parsed)
NoResponse == [raised |-> FALSE, status |-> 0, found |-> <<>>]
Response(r, found) == [raised |-> r.raised, status |-> r.status, found |-> found]

\* One resumption of the generator iterate_pages(max_pages), with the listing pages
\* the site may serve: it runs until it yields (pc "yielded"), ends (pc "sort": the
\* for loop over it is over) or raises (pc "raised").
iterate_pages_next(pages) ==
    /\ pc = "next"
    /\ p' = p + 1
    /\ IF p + 1 > max_pages
       THEN /\ pc' = "sort"
            /\ UNCHANGED <<links, io, last>>
       ELSE \E r \in ListingOutcomes(pages) :
              /\ io' = Append(io, Get("GET listing", ListingUrl(p + 1)))
              /\ IF r.raised \/ r.status = 404 \/ IsErrorStatus(r.status)
                 THEN /\ last' = Response(r, <<>>)
                      /\ pc' = IF r.raised THEN "raised"
                               ELSE IF r.status = 404 THEN "sort"
                               ELSE "raised"
                      /\ UNCHANGED links
                 ELSE LET found == LinksOf[r.soup]
                      IN /\ last' = Response(r, found)
                         /\ IF found = <<>> THEN pc' = "sort" /\ UNCHANGED links
                            ELSE pc' = "yielded" /\ links' = found
    /\ UNCHANGED <<max_pages, new_links, seen, clubs, extracted, output, writes, arg, ret>>

\* a consumer that exhausts the generator: for _ in iterate_pages(max_pages): pass
walk_resume ==
    /\ pc = "yielded"
    /\ pc' = "next"
    /\ UNCHANGED <<max_pages, p, links, new_links, seen, clubs, extracted, io, last,
                   output, writes, arg, ret>>

----------------------------------------------------------------------------
(* The orchestrator *)

NoFile == [written |-> FALSE]

\* new_links without the filter on seen
UnseenOrNot(s, S) == s

\* [u for u in s if u not in S]
Unseen(s, S) == SelectSeq(s, LAMBDA u : u \notin S)

\* the break one page late
StopsEarlyLate(new, page_num) == new = <<>> /\ page_num > 2

\* the break of line 142-143: not new_links and page_num > 1
StopsEarly(new, page_num) == new = <<>> /\ page_num > 1

\* main(), lines 140-143: the page iterate_pages yielded
main_page ==
    /\ pc = "yielded"
    /\ new_links' = Unseen(links, seen)
    /\ pc' = IF StopsEarly(Unseen(links, seen), p) THEN "sort" ELSE "details"
    /\ UNCHANGED <<max_pages, p, links, seen, clubs, extracted, io, last, output, writes,
                   arg, ret>>

\* the record main() appends for url
ClubRecord(url, detail) ==
    [name |-> Strip(detail.name), category |-> detail.category,
     description |-> Strip(detail.description), url |-> url]

\* no record is dropped
DiscardsNothing(detail) == FALSE

\* the continue of line 148-149: not name
Discards(detail) == Strip(detail.name) = ""

\* main(), lines 144-156: one turn of the loop over new_links
main_detail ==
    /\ pc = "details"
    /\ new_links # <<>>
    /\ \E got \in DetailOutcomes :
         LET url == Head(new_links)
             detail == DetailOf[url, got]
         IN /\ seen' = seen \cup {url}
            /\ extracted' = [u \in DOMAIN extracted \cup {url} |->
                               IF u = url THEN [raised |-> got.raised, detail |-> detail]
                               ELSE extracted[u]]
            /\ IF Discards(detail)
               THEN /\ clubs' = clubs
                    /\ io' = Append(io, Get("GET detail", url))
               ELSE /\ clubs' = Append(clubs, ClubRecord(url, detail))
                    /\ io' = io \o <<Get("GET detail", url), Sleep>>
    /\ new_links' = Tail(new_links)
    /\ UNCHANGED <<pc, max_pages, p, links, last, output, writes, arg, ret>>

\* main(): the loop over new_links is over, the for loop asks for the next page
main_next_page ==
    /\ pc = "details"
    /\ new_links = <<>>
    /\ pc' = "next"
    /\ UNCHANGED <<max_pages, p, links, new_links, seen, clubs, extracted, io, last,
                   output, writes, arg, ret>>

\* CATEGORIES.index(cat) if cat in CATEGORIES else len(CATEGORIES)
Rank(cat) ==
    IF \E i \in 1..Len(CATEGORIES) : CATEGORIES[i] = cat
    THEN (CHOOSE i \in 1..Len(CATEGORIES) : CATEGORIES[i] = cat) - 1
    ELSE Len(CATEGORIES)

\* the sort key with the name compared without regard to case
KeyLessIgnoringCase(c, d) ==
    \/ Rank(c.category) < Rank(d.category)
    \/ Rank(c.category) = Rank(d.category) /\ StrLess(Lower(c.name), Lower(d.name))

\* the sort key of c is less than that of d
KeyLess(c, d) ==
    \/ Rank(c.category) < Rank(d.category)
    \/ Rank(c.category) = Rank(d.category) /\ StrLess(c.name, d.name)

RECURSIVE Insert(_, _)
\* s, sorted, with c put after the elements whose key is not greater
Insert(s, c) ==
    IF s = <<>> THEN <<c>>
    ELSE IF KeyLess(c, Head(s)) THEN <<c>> \o s
    ELSE <<Head(s)>> \o Insert(Tail(s), c)

RECURSIVE SortClubs(_)
\* clubs.sort(key=...): a stable sort
SortClubs(s) ==
    IF s = <<>> THEN <<>> ELSE Insert(SortClubs(SubSeq(s, 1, Len(s) - 1)), s[Len(s)])

\* main(), lines 159-170: sort, build the payload, write clubs.json.  The payload's
\* generated_at is the wall clock; no property reads it and it is left out.
main_sort_write ==
    /\ pc = "sort"
    /\ clubs' = SortClubs(clubs)
    /\ output' = [written |-> TRUE, generated_from |-> LIST, clubs |-> SortClubs(clubs)]
    /\ writes' = writes + 1
    /\ pc' = "done"
    /\ UNCHANGED <<max_pages, p, links, new_links, seen, extracted, io, last, arg, ret>>

----------------------------------------------------------------------------
(* A run of main() *)

NoArg == <<>>

\* the state before anything has run
Start(at, pages, a) ==
    /\ pc = at
    /\ max_pages = pages
    /\ p = 0
    /\ links = <<>>
    /\ new_links = <<>>
    /\ seen = {}
    /\ clubs = <<>>
    /\ extracted = <<>>
    /\ io = <<>>
    /\ last = NoResponse
    /\ output = NoFile
    /\ writes = 0
    /\ arg = a
    /\ ret = NoArg

Init == Start("next", DEFAULT_MAX_PAGES, NoArg)

Next ==
    \/ iterate_pages_next(SitePages)
    \/ main_page
    \/ main_detail
    \/ main_next_page
    \/ main_sort_write

Spec == Init /\ [][Next]_vars

----------------------------------------------------------------------------
(* iterate_pages(max_pages) on its own, walked to its end *)

InitWalk == \E m \in (0..MaxPagesArg) \cup {DEFAULT_MAX_PAGES} : Start("next", m, NoArg)

NextWalk ==
    \/ iterate_pages_next(SitePages)
    \/ walk_resume

SpecWalk == InitWalk /\ [][NextWalk]_vars

----------------------------------------------------------------------------
(* find_club_links(soup) on its own *)

InitLinks == \E soup \in SeqsUpTo(ANCHORS, MaxAnchors) : Start("call", DEFAULT_MAX_PAGES, soup)

call_find_club_links ==
    /\ pc = "call"
    /\ ret' = LinksOf[arg]
    /\ pc' = "returned"
    /\ UNCHANGED <<max_pages, p, links, new_links, seen, clubs, extracted, io, last,
                   output, writes, arg>>

NextLinks == call_find_club_links

SpecLinks == InitLinks /\ [][NextLinks]_vars

----------------------------------------------------------------------------
(* guess_category(name, desc, url) on its own *)

NAMES == {"Chess Club", "AI Club", "Finance Tech Volunteers", "Tech Volunteers",
          "Muay Thai", "Korean Film Society", "Yoga Circle", "Anime Night"}

DESCS == {"", "We play chess.", "MARKETING and Code", "Community first aid",
          "Physics research and outdoor hiking", "Gems"}

URLS == {BASE \o "/clubs/chess", BASE \o "/clubs/ai", BASE \o "/clubs/x"}

InitCategory ==
    \E n \in NAMES, d \in DESCS, u \in URLS :
        Start("call", DEFAULT_MAX_PAGES, [name |-> n, desc |-> d, url |-> u])

call_guess_category ==
    /\ pc = "call"
    /\ ret' = guess_category(arg.name, arg.desc, arg.url)
    /\ pc' = "returned"
    /\ UNCHANGED <<max_pages, p, links, new_links, seen, clubs, extracted, io, last,
                   output, writes, arg>>

NextCategory == call_guess_category

SpecCategory == InitCategory /\ [][NextCategory]_vars

----------------------------------------------------------------------------
(* What the properties below read off a state *)

Range(q) == {q[i] : i \in 1..Len(q)}

\* the positions of io holding a request of the kind
Positions(kind) == {i \in 1..Len(io) : io[i].op = kind}

\* the listing requests of the run, in order
ListingGets == SelectSeq(io, LAMBDA e : e.op = "GET listing")

\* the url of listing page k, written out
PageUrl(k) ==
    IF k = 1 THEN "https://amsclubs.ca/all-clubs/"
    ELSE "https://amsclubs.ca/all-clubs/pagenum/" \o ToString(k) \o "/"

\* the last listing request failed with something else than a 404
ListingFailed == last.raised \/ (last.status >= 400 /\ last.status # 404)

\* the last listing request ended the walk without an error
ListingEnded == ~last.raised /\ (last.status = 404 \/ (last.status = 200 /\ last.found = <<>>))

HasRecord(cs, u) == \E i \in 1..Len(cs) : cs[i].url = u

\* the host of an absolute url: after the scheme, up to the path, query or fragment,
\* without user information and port
Host(u) ==
    LET rest == SubSeq(u, Find(u, "://") + 3, Len(u))
        ends == {i \in 1..Len(rest) : CharAt(rest, i) \in {"/", "?", "#"}}
        authority == IF ends = {} THEN rest
                     ELSE SubSeq(rest, 1, (CHOOSE i \in ends : \A j \in ends : i <= j) - 1)
        ats == {i \in 1..Len(authority) : CharAt(authority, i) = "@"}
        hostport == IF ats = {} THEN authority
                    ELSE SubSeq(authority, (CHOOSE i \in ats : \A j \in ats : i >= j) + 1,
                                Len(authority))
    IN SplitFirst(hostport, ":")

IsAbsolute(u) == Find(u, "://") > 1

\* the cascade in the order the specification gives it
CASCADE ==
    << <<"Business", BUSINESS_KEYWORDS>>, <<"Technology", TECHNOLOGY_KEYWORDS>>,
       <<"Sciences", SCIENCES_KEYWORDS>>, <<"Athletic", ATHLETIC_KEYWORDS>>,
       <<"Service", SERVICE_KEYWORDS>>, <<"Cultural", CULTURAL_KEYWORDS>>,
       <<"Recreational", RECREATIONAL_KEYWORDS>> >>

\* the text guess_category looks at, for the argument of the call
ArgText == Lower(arg.name \o " " \o arg.desc \o " " \o arg.url)

\* the categories of the cascade with a keyword in the text
Hits(t) == {i \in 1..Len(CASCADE) :
              \E k \in 1..Len(CASCADE[i][2]) : Contains(t, CASCADE[i][2][k])}

\* the result is the first category of the cascade with a keyword in the text
FirstMatchWins ==
    /\ ret \in Range(CATEGORIES)
    /\ Len(CATEGORIES) = 8
    /\ IF Hits(ArgText) = {} THEN ret = "Other"
       ELSE ret = CASCADE[CHOOSE i \in Hits(ArgText) : \A j \in Hits(ArgText) : i <= j][1]

----------------------------------------------------------------------------
(* The properties *)

\* C1: the clubs of the document main() writes are sorted: the category rank (the
\* index in CATEGORIES) never decreases from a record to the next, and between
\* neighbours of one category the name never decreases in code point order.
C1_OutputSorted ==
    output.written =>
        \A i \in 1..(Len(output.clubs) - 1) :
            LET a == output.clubs[i]
                b == output.clubs[i + 1]
            IN /\ Rank(a.category) <= Rank(b.category)
               /\ a.category = b.category => ~StrLess(b.name, a.name)

\* a document of three records or more, in another order than they were appended
\* in, with neighbours of one category and neighbours of two
C1_Witness ==
    /\ output.written
    /\ Len(output.clubs) >= 3
    /\ [i \in 1..Len(output.clubs) |-> output.clubs[i].url]
         # SelectSeq([i \in 1..Len(io) |-> io[i].url],
                     LAMBDA u : u # "" /\ HasRecord(output.clubs, u))
    /\ \E i \in 1..(Len(output.clubs) - 1) :
         /\ output.clubs[i].category = output.clubs[i + 1].category
         /\ output.clubs[i].name = "Chess Club"
         /\ output.clubs[i + 1].name = "art Collective"
    /\ \E i \in 1..(Len(output.clubs) - 1) :
         output.clubs[i].category # output.clubs[i + 1].category

\* C2: at every point of a run no two records of clubs have the same url, and no
\* detail url is requested twice: a url listed on several pages is processed on
\* the first of them only.
C2_UrlsUnique ==
    /\ \A i, j \in 1..Len(clubs) : clubs[i].url = clubs[j].url => i = j
    /\ \A i, j \in Positions("GET detail") : io[i].url = io[j].url => i = j
    /\ Range(new_links) \cap seen = {}
    /\ seen = {io[i].url : i \in Positions("GET detail")}

\* page 2 lists a url page 1 listed, beside a new one; both pages are processed
\* and the url has its record
C2_Witness ==
    /\ p = 2
    /\ pc = "details"
    /\ new_links = <<>>
    /\ Len(links) > 1
    /\ \E u \in Range(links) :
         /\ HasRecord(clubs, u)
         /\ \E i \in Positions("GET detail") :
              io[i].url = u /\ \A j \in Positions("GET listing") : j < i => io[j].url = LIST

\* C3: every url main() has processed has a record if and only if the name
\* parse_detail extracted for it is not empty once trimmed, in clubs at every point
\* and in the document written; no record has an empty name.
C3_RecordIffName ==
    /\ DOMAIN extracted = seen
    /\ \A u \in DOMAIN extracted :
         HasRecord(clubs, u) <=> Strip(extracted[u].detail.name) # ""
    /\ \A i \in 1..Len(clubs) : clubs[i].name # "" /\ clubs[i].url \in DOMAIN extracted
    /\ output.written =>
         /\ \A u \in DOMAIN extracted :
              HasRecord(output.clubs, u) <=> Strip(extracted[u].detail.name) # ""
         /\ \A i \in 1..Len(output.clubs) : output.clubs[i].name # ""

\* a document written after a page with a blank heading was dropped and another
\* page gave a record
C3_Witness ==
    /\ output.written
    /\ \E u, v \in DOMAIN extracted :
         /\ HasRecord(output.clubs, u)
         /\ ~extracted[v].raised
         /\ ~HasRecord(output.clubs, v)

\* the walk, in a state and in a step (C4 below)
C4_WalkState ==
    /\ \A k \in 1..Len(ListingGets) : ListingGets[k].url = PageUrl(k)
    /\ Len(ListingGets) <= max_pages
    /\ pc = "yielded" => links # <<>> /\ links = last.found /\ last.status = 200
    /\ Len(io) > 0 /\ ListingEnded => pc = "sort" /\ io[Len(io)].op = "GET listing"

C4_WalkStep ==
    /\ pc = "sort" => io' = io
    /\ io' # io => /\ pc = "next"
                   /\ Len(io') = Len(io) + 1
                   /\ SubSeq(io', 1, Len(io)) = io
                   /\ p' = p + 1

\* C4: iterate_pages requests the listing pages 1, 2, 3, ... in order and without
\* gaps, never one above max_pages, yields a page only with a link set that is not
\* empty, and requests nothing once a page returned 404 or an empty link set.
C4_Walk == []C4_WalkState /\ [][C4_WalkStep]_vars

\* page 2 had no links: the walk is over and page 3 was never requested
C4_Witness ==
    /\ pc = "sort"
    /\ Len(io) = 2
    /\ io[2].url = PageUrl(2)
    /\ last.status = 200
    /\ last.found = <<>>
    /\ max_pages > 2

\* a failed detail page, in a state and in a step (C5 below)
C5_FailureState ==
    /\ \A u \in DOMAIN extracted :
         extracted[u].raised =>
             /\ extracted[u].detail = [name |-> "", description |-> "", category |-> "Other"]
             /\ ~HasRecord(clubs, u)
    /\ pc = "raised" => ListingFailed

C5_FailureStep ==
    \A u \in DOMAIN extracted' \ DOMAIN extracted :
        extracted'[u].raised \/ extracted'[u].detail.name = "" =>
            /\ u = Head(new_links)
            /\ new_links' = Tail(new_links)
            /\ seen' = seen \cup {u}
            /\ clubs' = clubs
            /\ pc' = "details"
            /\ io' = Append(io, [op |-> "GET detail", url |-> u])
            /\ <<p, links, last, output, writes>>' = <<p, links, last, output, writes>>

\* C5: when get_soup raises for a detail page, parse_detail returns name "",
\* description "" and category "Other"; main() adds no record for the url, does
\* not abort, and goes on with the rest of new_links as it does for an empty name.
C5_FailureRecovered == []C5_FailureState /\ [][C5_FailureStep]_vars

\* get_soup raised for a url, a url requested later has its record, and the
\* document was written
C5_Witness ==
    /\ output.written
    /\ \E i, j \in Positions("GET detail") :
         /\ i < j
         /\ extracted[io[i].url].raised
         /\ HasRecord(output.clubs, io[j].url)

\* a failed listing page and the write, in a state and in a step (C6 below)
C6_FatalState ==
    /\ ListingFailed =>
         /\ pc = "raised"
         /\ ~output.written
         /\ writes = 0
         /\ io[Len(io)] = [op |-> "GET listing", url |-> PageUrl(p)]
    /\ writes <= 1
    /\ output.written <=> writes = 1
    /\ output.written => pc = "done"

C6_FatalStep ==
    /\ pc # "raised"
    /\ pc # "done"
    /\ writes' # writes => pc = "sort" /\ new_links = <<>> /\ io' = io

\* C6: a listing request that fails with a network failure or an error status other
\* than 404 ends the run at once, without retry and without clubs.json being
\* written; clubs.json is written at most once, after the last listing page.
C6_ListingFailureFatal == []C6_FatalState /\ [][C6_FatalStep]_vars

\* page 2 answers 500 after a record was collected: the run has ended, no file
C6_Witness ==
    /\ pc = "raised"
    /\ p = 2
    /\ last.status = 500
    /\ Len(clubs) >= 1
    /\ ~output.written

\* C7, as stated: guess_category returns the first category of the cascade with a
\* keyword in the lower-cased text, "Other" when there is none; a text with a
\* Business and a Technology keyword gives Business, and a text with a Technology
\* and a Service keyword gives Technology.
C7_AsStated ==
    pc = "returned" =>
        /\ FirstMatchWins
        /\ {1, 2} \subseteq Hits(ArgText) => ret = "Business"
        /\ {2, 5} \subseteq Hits(ArgText) => ret = "Technology"

\* C7, amended: as stated, but a text with a Technology and a Service keyword gives
\* Technology when it has no Business keyword.
C7_FirstMatch ==
    pc = "returned" =>
        /\ FirstMatchWins
        /\ {1, 2} \subseteq Hits(ArgText) => ret = "Business"
        /\ {2, 5} \subseteq Hits(ArgText) /\ 1 \notin Hits(ArgText) => ret = "Technology"

\* a text with a Technology and a Service keyword and no Business keyword
C7_Witness ==
    /\ pc = "returned"
    /\ {2, 5} \subseteq Hits(ArgText)
    /\ 1 \notin Hits(ArgText)
    /\ arg.name = "Tech Volunteers"
    /\ ret = "Technology"

\* C8: every link find_club_links returns is absolute, is on the host of BASE and
\* has no fragment; the links are in ascending order without duplicates.
C8_LinksOnSite ==
    pc = "returned" =>
        /\ \A i \in 1..Len(ret) :
             /\ IsAbsolute(ret[i])
             /\ Host(ret[i]) = Host(BASE)
             /\ ~Contains(ret[i], "#")
        /\ \A i \in 1..(Len(ret) - 1) : StrLess(ret[i], ret[i + 1])

\* what a step may do at a page, at the end of the loop and at a detail request (C9 below)
C9_EarlyStopStep ==
    /\ pc = "yielded" /\ p > 1 /\ Range(links) \subseteq seen => pc' = "sort" /\ io' = io
    /\ pc = "sort" => pc' = "done" /\ io' = io /\ output'.written
    /\ pc = "done" => FALSE
    /\ pc = "yielded" /\ ~(Range(links) \subseteq seen) =>
         /\ pc' = "details"
         /\ io' = io
         /\ new_links' = SelectSeq(links, LAMBDA u : u \notin seen)
    /\ \A i \in Positions("GET detail")' \ Positions("GET detail") :
         /\ pc = "details"
         /\ io'[i].url \notin seen
         /\ io'[i].url \in Range(links)

\* C9: a page after page 1 whose links are all seen ends the pagination: nothing
\* is requested afterwards and the run goes on to sort and write.  A page with
\* an unseen link does not end it, and only unseen links of the page are requested.
C9_EarlyStop == [][C9_EarlyStopStep]_vars

\* page 2 or later listed seen urls only and the document was written right after
C9_Witness ==
    /\ pc = "done"
    /\ p > 1
    /\ last.status = 200
    /\ last.found = links
    /\ links # <<>>
    /\ Range(links) \subseteq seen
    /\ io[Len(io)] = [op |-> "GET listing", url |-> PageUrl(p)]

\* C10: between two consecutive detail requests of a run there is a pause of 0.5,
\* also when the earlier one failed or gave an empty name.
C10_PauseBetweenFetches ==
    \A i, j \in Positions("GET detail") :
        i < j /\ (\A k \in Positions("GET detail") : ~(i < k /\ k < j)) =>
            \E k \in (i + 1)..(j - 1) : io[k] = Sleep

====
